---- MODULE Spec2Model ----
(***************************************************************************)
(* Model of the Luzern velox bot (src/velox.py, the current program, and   *)
(* src/velox-bot-async.py, its earlier variant).                           *)
(*                                                                         *)
(* State: the two persisted JSON documents (chat_ids.json, the subscriber  *)
(* registry, and previous_dict.json, the last snapshot), and the position  *)
(* and locals of each coroutine that can be in flight.  An action is one   *)
(* atomic segment of a coroutine: asyncio runs a coroutine without         *)
(* interruption from one await that really suspends to the next, and the   *)
(* only awaits of the program are the send_message calls.                  *)
(***************************************************************************)
EXTENDS Integers, Sequences, FiniteSets, TLC

\* ---------------------------------------------------------------- bounds

\* Most <li> elements the page holds (the trailing map link included).
MaxLi == 3

\* Most pipeline runs (scheduled, manual or CLI) one behaviour starts.
MaxRuns == 2

\* ------------------------------------------------------- program constants

\* velox.py:30  "if response.status_code != 200"
HTTP_OK == 200

\* ------------------------------------------------------------ Python values

\* Python's None (distinct from every string the page can hold).
PyNone == "<None>"

\* str(x) of an f-string field: a string is itself, None prints as "None".
PyStr(v) == IF v = PyNone THEN "None" ELSE v

\* A coordinate pair as fetch builds it (a tuple) and as JSON returns it (a list).
PyTuple(a, b) == [py |-> "tuple", v |-> <<a, b>>]

JsonList(a, b) == [py |-> "list", v |-> <<a, b>>]

\* The empty dict.
EmptyDict == [n \in {} |-> PyTuple(PyNone, PyNone)]

\* ------------------------------------------------------------- input sets

\* Chats that talk to the bot (update.message.chat_id is an integer).
ChatIds == {1, 2}

\* Link texts the page can show.
Names == {"Rue A", "Rue B"}

\* Where each place is: the tokens its onclick handler names.
LatLong(n) == IF n = "Rue A" THEN <<"47.05", "8.30">> ELSE <<"47.02", "8.31">>

\* One <li>: whether it holds an <a>, the <a>'s text, and whether its onclick
\* matches map.flyTo([lat,long] with which tokens.
NoLink == [a |-> FALSE, text |-> "", match |-> FALSE, lat |-> "", long |-> ""]

\* The <li> elements a page can hold: one without <a>, every place with its
\* coordinates, and "Rue B" with an onclick the regex does not match.
LiItems ==
  {NoLink}
  \cup {[a |-> TRUE, text |-> "Rue B", match |-> FALSE, lat |-> "", long |-> ""]}
  \cup {[a |-> TRUE, text |-> n, match |-> TRUE,
         lat |-> LatLong(n)[1], long |-> LatLong(n)[2]] : n \in Names}

Pages == UNION {[1..k -> LiItems] : k \in 0..MaxLi}

\* What requests.get can do: raise (connection error, timeout), or return a
\* response with a status code and a body that has or lacks div#radarList.
Responses ==
  {[exc |-> TRUE, status_code |-> 0, radarList |-> FALSE, li_tags |-> <<>>]}
  \cup {[exc |-> FALSE, status_code |-> 503, radarList |-> FALSE, li_tags |-> <<>>]}
  \cup {[exc |-> FALSE, status_code |-> HTTP_OK, radarList |-> FALSE, li_tags |-> <<>>]}
  \cup {[exc |-> FALSE, status_code |-> HTTP_OK, radarList |-> TRUE, li_tags |-> p] :
          p \in Pages}

\* What one bot.send_message call can do.
SendOutcomes == {"ok", "raise"}

\* ------------------------------------------------------------------ helpers

\* d[k] = v on a dict.
DictSet(d, k, v) == [n \in (DOMAIN d) \cup {k} |-> IF n = k THEN v ELSE d[n]]

\* seq[:-1]
ButLast(seq) == IF Len(seq) = 0 THEN <<>> ELSE SubSeq(seq, 1, Len(seq) - 1)

\* The orders a for-loop over a set can take.
Orders(S) == {o \in [1..Cardinality(S) -> S] : \A i, j \in DOMAIN o : o[i] = o[j] => i = j}

\* ------------------------------------------------------------- the fetcher

generate_maps_base_url(lat_long_t) ==
  "https://www.google.com/maps/search/?api=1&query=" \o PyStr(lat_long_t.v[1])
    \o "%2C" \o PyStr(lat_long_t.v[2])

\* The (lat, long) one <a> yields: the regex's two groups, or (None, None).
LiCoordinates(li) ==
  IF li.match THEN PyTuple(li.lat, li.long) ELSE PyTuple(PyNone, PyNone)

\* The for-loop over li_tags: a later <li> with the same text overwrites.
RECURSIVE LiLoop(_, _, _)
LiLoop(li_tags, i, current_dict) ==
  IF i > Len(li_tags) THEN current_dict
  ELSE IF li_tags[i].a
       THEN LiLoop(li_tags, i + 1,
                   DictSet(current_dict, li_tags[i].text, LiCoordinates(li_tags[i])))
       ELSE LiLoop(li_tags, i + 1, current_dict)

\* fetch_current_dict: the exception of requests.get goes up to the caller;
\* on a response, None (and which test returned it) or the dict.
fetch_current_dict(response) ==
  IF response.exc
  THEN [exc |-> TRUE, none |-> FALSE, why |-> "", d |-> EmptyDict]
  ELSE IF response.status_code # HTTP_OK
  THEN [exc |-> FALSE, none |-> TRUE, why |-> "status_code", d |-> EmptyDict]
  ELSE IF ~response.radarList
  THEN [exc |-> FALSE, none |-> TRUE, why |-> "radarList", d |-> EmptyDict]
  ELSE [exc |-> FALSE, none |-> FALSE, why |-> "",
        d |-> LiLoop(ButLast(response.li_tags), 1, EmptyDict)]

\* The outcomes of a fetch, over every response.
Fetches == {fetch_current_dict(response) : response \in Responses}

\* ------------------------------------------------------ the subscriber store

\* chat_ids.json: missing, or a JSON object kept in insertion order, one
\* member per chat: <<[id |-> "1", notify_for_no_updates |-> FALSE], ...>>.
MissingFile == [status |-> "missing", data |-> <<>>]

\* A file that json.load rejects with JSONDecodeError (a ValueError): empty,
\* as open(..., 'w') leaves it when the process dies before json.dump has
\* written, or cut short.
CorruptFile == [status |-> "corrupt", data |-> <<>>]

\* A snapshot file that holds a JSON array of names, the format that
\* velox-bot-async.py wrote: json.load returns a list.
PlainListFile == [status |-> "list", data |-> <<"Rue A">>]

JsonFile(data) == [status |-> "ok", data |-> data]

HasKey(chats, key) == \E i \in DOMAIN chats : chats[i].id = key

IndexOf(chats, key) == CHOOSE i \in DOMAIN chats : chats[i].id = key

KeysOf(chats) == [i \in DOMAIN chats |-> chats[i].id]

\* save_chats: the whole document is rewritten.
save_chats(chat_ids) == JsonFile(chat_ids)

\* get_chats: None when the file is missing, the dict otherwise; only
\* FileNotFoundError is caught, so the error of json.load goes up.
get_chats(file) ==
  IF file.status = "missing" THEN [none |-> TRUE, d |-> <<>>, exc |-> ""]
  ELSE IF file.status = "corrupt" THEN [none |-> FALSE, d |-> <<>>, exc |-> "JSONDecodeError"]
  ELSE [none |-> FALSE, d |-> file.data, exc |-> ""]

\* "not chat_ids": None and the empty dict are both falsy.
Falsy(chats) == chats.none \/ Len(chats.d) = 0

\* A save_chat_id that writes a dict holding the new entry alone.
save_chat_id_alone(file, chat_id) ==
  LET key == ToString(chat_id)
      chat_ids == IF file.status = "missing" THEN <<>> ELSE file.data
  IN IF file.status = "corrupt"
     THEN [file |-> file, ret |-> FALSE, exc |-> "JSONDecodeError"]
     ELSE IF HasKey(chat_ids, key)
     THEN [file |-> file, ret |-> FALSE, exc |-> ""]
     ELSE [file |-> save_chats(<<[id |-> key, notify_for_no_updates |-> FALSE]>>),
           ret |-> TRUE, exc |-> ""]

\* A save_chat_id that writes the default entry before it tests the key.
save_chat_id_reset(file, chat_id) ==
  LET key == ToString(chat_id)
      chat_ids == IF file.status = "missing" THEN <<>> ELSE file.data
  IN IF file.status = "corrupt"
     THEN [file |-> file, ret |-> FALSE, exc |-> "JSONDecodeError"]
     ELSE IF HasKey(chat_ids, key)
     THEN [file |-> save_chats([chat_ids EXCEPT
                       ![IndexOf(chat_ids, key)].notify_for_no_updates = FALSE]),
           ret |-> FALSE, exc |-> ""]
     ELSE [file |-> save_chats(Append(chat_ids,
                       [id |-> key, notify_for_no_updates |-> FALSE])),
           ret |-> TRUE, exc |-> ""]

\* save_chat_id: the file after the call and the value returned, or the
\* exception of json.load (only FileNotFoundError is caught).
save_chat_id(file, chat_id) ==
  LET key == ToString(chat_id)
      chat_ids == IF file.status = "missing" THEN <<>> ELSE file.data
  IN IF file.status = "corrupt"
     THEN [file |-> file, ret |-> FALSE, exc |-> "JSONDecodeError"]
     ELSE IF HasKey(chat_ids, key)
     THEN [file |-> file, ret |-> FALSE, exc |-> ""]
     ELSE [file |-> save_chats(Append(chat_ids,
                       [id |-> key, notify_for_no_updates |-> FALSE])),
           ret |-> TRUE, exc |-> ""]

\* (broadcast calls it after its own get_chats has returned a dict, and no
\* operation writes a malformed chat_ids.json, so get_chats returns here.)
should_notify_no_updates(file, chat_id) ==
  LET chat_ids == get_chats(file)
  IN IF Falsy(chat_ids) THEN FALSE
     ELSE chat_ids.d[IndexOf(chat_ids.d, chat_id)].notify_for_no_updates

\* A toggle that sets every entry of the dict to the caller's new value.
set_notify_no_updates_all(file, chat_id) ==
  LET key == ToString(chat_id)
      chat_ids == get_chats(file)
  IN IF chat_ids.exc # ""
     THEN [file |-> file, result |-> chat_ids.exc, new_val |-> FALSE]
     ELSE IF Falsy(chat_ids)
     THEN [file |-> file, result |-> "noop", new_val |-> FALSE]
     ELSE IF ~HasKey(chat_ids.d, key)
     THEN [file |-> file, result |-> "KeyError", new_val |-> FALSE]
     ELSE LET new_val == ~chat_ids.d[IndexOf(chat_ids.d, key)].notify_for_no_updates
          IN [file |-> save_chats([i \in DOMAIN chat_ids.d |->
                                     [chat_ids.d[i] EXCEPT !.notify_for_no_updates = new_val]]),
              result |-> "saved", new_val |-> new_val]

\* A toggle that flips the value in memory and never calls save_chats.
set_notify_no_updates_unsaved(file, chat_id) ==
  LET key == ToString(chat_id)
      chat_ids == get_chats(file)
  IN IF chat_ids.exc # ""
     THEN [file |-> file, result |-> chat_ids.exc, new_val |-> FALSE]
     ELSE IF Falsy(chat_ids)
     THEN [file |-> file, result |-> "noop", new_val |-> FALSE]
     ELSE IF ~HasKey(chat_ids.d, key)
     THEN [file |-> file, result |-> "KeyError", new_val |-> FALSE]
     ELSE [file |-> file, result |-> "saved",
           new_val |-> ~chat_ids.d[IndexOf(chat_ids.d, key)].notify_for_no_updates]

\* cmd_set_notify_no_updates up to its reply: the exception of get_chats,
\* "noop" (return None), "KeyError" (the id is no key of the dict), or "saved"
\* with the new value written.
set_notify_no_updates(file, chat_id) ==
  LET key == ToString(chat_id)
      chat_ids == get_chats(file)
  IN IF chat_ids.exc # ""
     THEN [file |-> file, result |-> chat_ids.exc, new_val |-> FALSE]
     ELSE IF Falsy(chat_ids)
     THEN [file |-> file, result |-> "noop", new_val |-> FALSE]
     ELSE IF ~HasKey(chat_ids.d, key)
     THEN [file |-> file, result |-> "KeyError", new_val |-> FALSE]
     ELSE LET i == IndexOf(chat_ids.d, key)
              new_val == ~chat_ids.d[i].notify_for_no_updates
          IN [file |-> save_chats([chat_ids.d EXCEPT ![i].notify_for_no_updates = new_val]),
              result |-> "saved", new_val |-> new_val]

\* ------------------------------------------------------- the snapshot store

\* json.dump(current_dict): every tuple is written as a JSON list.
json_dump(current_dict) ==
  [n \in DOMAIN current_dict |->
     JsonList(current_dict[n].v[1], current_dict[n].v[2])]

\* The load of previous_dict.json in check_for_updates: the dict, and the set
\* of its keys; a missing file (FileNotFoundError) and a malformed one
\* (ValueError) give the empty set; a JSON array is loaded as a list, whose
\* .keys() raises AttributeError, which the except clause does not name.
load_previous(file) ==
  IF file.status \in {"missing", "corrupt"}
  THEN [previous_dict |-> EmptyDict, set_previous |-> {}, exc |-> ""]
  ELSE IF file.status = "list"
  THEN [previous_dict |-> EmptyDict, set_previous |-> {}, exc |-> "AttributeError: keys"]
  ELSE [previous_dict |-> file.data, set_previous |-> DOMAIN file.data, exc |-> ""]

\* ---------------------------------------------------------- diff and message

\* A diff that forgets the previous snapshot.
added_of_everything(set_current, set_previous) == set_current

added_of(set_current, set_previous) == set_current \ set_previous

removed_of(set_previous, set_current) == set_previous \ set_current

\* One line of a message: its text, and the link it carries ("" for none).
Plain(text) == [text |-> text, href |-> ""]

Entry(el, lat_long_t) == [text |-> el, href |-> generate_maps_base_url(lat_long_t)]

FailedMsg == <<Plain("Failed to fetch updates.")>>

\* A message whose last test reads "not added or not removed".
build_msg_or(current_dict, previous_dict, added_order, removed_order) ==
  <<[text |-> "Checking for updates", href |-> ""], [text |-> "", href |-> ""]>>
  \o (IF Len(added_order) > 0
      THEN <<[text |-> "Added:", href |-> ""]>>
           \o [i \in DOMAIN added_order |->
                 [text |-> added_order[i],
                  href |-> generate_maps_base_url(current_dict[added_order[i]])]]
      ELSE <<>>)
  \o (IF Len(removed_order) > 0
      THEN <<[text |-> "Removed:", href |-> ""]>>
           \o [i \in DOMAIN removed_order |->
                 [text |-> removed_order[i],
                  href |-> generate_maps_base_url(previous_dict[removed_order[i]])]]
      ELSE <<>>)
  \o (IF Len(added_order) = 0 \/ Len(removed_order) = 0
      THEN <<[text |-> "No changes detected.", href |-> ""]>>
      ELSE <<>>)

\* The message check_for_updates builds, the sets iterated in the given orders.
build_msg(current_dict, previous_dict, added_order, removed_order) ==
  <<Plain("Checking for updates"), Plain("")>>
  \o (IF Len(added_order) > 0
      THEN <<Plain("Added:")>>
           \o [i \in DOMAIN added_order |->
                 Entry(added_order[i], current_dict[added_order[i]])]
      ELSE <<>>)
  \o (IF Len(removed_order) > 0
      THEN <<Plain("Removed:")>>
           \o [i \in DOMAIN removed_order |->
                 Entry(removed_order[i], previous_dict[removed_order[i]])]
      ELSE <<>>)
  \o (IF Len(added_order) = 0 /\ Len(removed_order) = 0
      THEN <<Plain("No changes detected.")>>
      ELSE <<>>)

\* "no_updates = not forced_update", set only when nothing changed.
no_updates_of(added, removed, forced_update) ==
  IF added = {} /\ removed = {} THEN ~forced_update ELSE FALSE

\* A test that skips the chats whose preference is off, whatever the run found.
skips_whatever(no_updates, file, chat_id) ==
  ~should_notify_no_updates(file, chat_id)

\* broadcast's test on one chat: TRUE when the chat is skipped (continue).
skips(no_updates, file, chat_id) ==
  no_updates /\ ~should_notify_no_updates(file, chat_id)

\* A save that writes the file only when there is none yet.
save_previous_once(file, current_dict, no_updates, save_list) ==
  IF ~no_updates /\ save_list /\ file.status = "missing"
  THEN JsonFile(json_dump(current_dict))
  ELSE file

\* A save whose test lost its "not".
save_previous_inverted(file, current_dict, no_updates, save_list) ==
  IF no_updates /\ save_list
  THEN [status |-> "ok",
        data |-> [n \in DOMAIN current_dict |->
                    [py |-> "list", v |-> current_dict[n].v]]]
  ELSE file

\* "if not no_updates and save_list": previous_dict.json after the run.
save_previous(file, current_dict, no_updates, save_list) ==
  IF ~no_updates /\ save_list THEN JsonFile(json_dump(current_dict)) ELSE file

\* ------------------------------------------------------------------- state

VARIABLES
  chat_ids_json,      \* chat_ids.json
  previous_dict_json, \* previous_dict.json
  run,                \* per coroutine slot: its position and locals
  nruns,              \* pipeline runs started so far
  toggled,            \* history: per chat, whether it has completed an odd
                      \* number of /notify_no_updates toggles
  started,            \* history: the chats whose /start has been handled
  tracked             \* whether the behaviour records the history of
                      \* overlapping runs (overlapped, later, stale)

vars == <<chat_ids_json, previous_dict_json, run, nruns, toggled, started, tracked>>

\* "job": the scheduler's check_for_updates job (APScheduler runs one instance
\* of a job at a time).  "cmd": the command handler being processed (the
\* Application processes one update at a time).  "cli": a headless run of the
\* script, a process of its own.
Slots == {"job", "cmd", "cli"}

\* The slots of the bot process: the job and the handler.
BotSlots == {"job", "cmd"}

Idle ==
  [pc |-> "idle", op |-> "", chat |-> 0, exc |-> "",
   forced_update |-> FALSE, save_list |-> FALSE, app |-> FALSE,
   fetch |-> "", current_dict |-> EmptyDict, previous_dict |-> EmptyDict,
   added |-> {}, removed |-> {}, msg |-> <<>>, no_updates |-> FALSE,
   current_list |-> <<>>, previous_list |-> <<>>,
   keys |-> <<>>, i |-> 0, sent |-> {},
   saved |-> FALSE, dirty |-> FALSE, ret |-> "", reply |-> <<>>,
   overlapped |-> FALSE, later |-> FALSE, stale |-> FALSE]

Terminal(r) == r.pc \in {"returned", "raised"}

\* A coroutine is at its return (or at the raise that ends it): the event
\* loop has not taken up anything else yet.
Busy == \E s \in Slots : Terminal(run[s])

\* No coroutine is in flight.
Quiet == \A s \in Slots : run[s].pc = "idle"

Init ==
  /\ chat_ids_json \in {MissingFile, JsonFile(<<>>)}
  /\ previous_dict_json = MissingFile
  /\ run = [s \in Slots |-> Idle]
  /\ nruns = 0
  /\ toggled = [c \in ChatIds |-> FALSE]
  /\ started = {}
  /\ tracked = FALSE

\* ------------------------------------------------------------ the pipeline

\* broadcast's for-loop from index i on: the first chat that is not skipped,
\* Len + 1 when there is none.
RECURSIVE next_send(_, _, _, _)
next_send(keys, i, no_updates, file) ==
  IF i > Len(keys) THEN i
  ELSE IF skips(no_updates, file, keys[i])
       THEN next_send(keys, i + 1, no_updates, file)
       ELSE i

\* The end of check_for_updates once broadcast has returned: the early return
\* of a failed fetch, or the save.
after_broadcast(r, prev) ==
  IF r.fetch # "dict"
  THEN [r |-> [r EXCEPT !.pc = "returned"], prev |-> prev]
  ELSE LET file == save_previous(prev, r.current_dict, r.no_updates, r.save_list)
       IN [r |-> [r EXCEPT !.pc = "returned",
                           !.saved = ~r.no_updates /\ r.save_list],
           prev |-> file]

\* broadcast from index i on, up to the next send_message (where the
\* coroutine suspends) or to the end of check_for_updates.
advance(r, i, reg, prev) ==
  LET j == next_send(r.keys, i, r.no_updates, reg)
  IN IF j <= Len(r.keys)
     THEN [r |-> [r EXCEPT !.pc = "await_send", !.i = j, !.sent = @ \cup {r.keys[j]}],
           prev |-> prev]
     ELSE after_broadcast([r EXCEPT !.i = j], prev)

\* "if app: await broadcast(app, msg, no_updates)" and what follows it; a
\* run that has raised before it does not reach it.
broadcast(r, reg, prev) ==
  LET chat_ids == get_chats(reg)
  IN IF r.pc = "raised"
     THEN [r |-> r, prev |-> prev]
     ELSE IF r.app /\ chat_ids.exc # ""
     THEN [r |-> [r EXCEPT !.pc = "raised", !.exc = chat_ids.exc], prev |-> prev]
     ELSE IF ~r.app \/ Falsy(chat_ids)
     THEN after_broadcast(r, prev)
     ELSE advance([r EXCEPT !.keys = KeysOf(chat_ids.d)], 1, reg, prev)

\* check_for_updates from the fetch's return to the broadcast (or to the
\* exception of the load).
check_for_updates(r, current, added_order, removed_order, prev) ==
  LET loaded == load_previous(prev)
      set_current == DOMAIN current.d
      added == added_of(set_current, loaded.set_previous)
      removed == removed_of(loaded.set_previous, set_current)
  IN IF current.none
     THEN [r EXCEPT !.fetch = current.why, !.msg = FailedMsg, !.no_updates = FALSE]
     ELSE IF loaded.exc # ""
     THEN [r EXCEPT !.fetch = "dict", !.current_dict = current.d,
                    !.pc = "raised", !.exc = loaded.exc]
     ELSE [r EXCEPT !.fetch = "dict", !.current_dict = current.d,
                    !.previous_dict = loaded.previous_dict,
                    !.added = added, !.removed = removed,
                    !.msg = build_msg(current.d, loaded.previous_dict,
                                      added_order, removed_order),
                    !.no_updates = no_updates_of(added, removed, r.forced_update)]

\* The orders in which the run's two for-loops can visit added and removed.
LoopOrders(current, prev) ==
  LET loaded == load_previous(prev)
  IN Orders(added_of(DOMAIN current.d, loaded.set_previous))
       \X Orders(removed_of(loaded.set_previous, DOMAIN current.d))

\* A run of the bot is suspended in its broadcast.
InFlight(r) == r.op = "check_for_updates" /\ r.pc = "await_send"

\* The frame of a run that starts in slot s.  History, where it is recorded:
\* whether a run of the other slot is in flight (overlapped), which makes
\* this run the later of the two (later).
begin(s, r0) ==
  [r0 EXCEPT !.overlapped = tracked /\ \E t \in BotSlots \ {s} : InFlight(run[t]),
             !.later = tracked /\ \E t \in BotSlots \ {s} : InFlight(run[t])]

\* The other frames when a run starts in slot s: a run in flight has been
\* overlapped, and is the earlier of the two.
overlap(runs, s) ==
  [t \in Slots |-> IF tracked /\ t # s /\ InFlight(runs[t])
                   THEN [runs[t] EXCEPT !.overlapped = TRUE, !.later = FALSE]
                   ELSE runs[t]]

\* The frames when the run of slot s has come to frame r.  History: when r
\* has written previous_dict.json and is the later of two runs, the earlier
\* run, still in flight, holds a fetch older than the file (stale).
step(runs, s, r) ==
  [t \in Slots |-> IF t = s THEN r
                   ELSE IF tracked /\ r.saved /\ r.later /\ InFlight(runs[t])
                   THEN [runs[t] EXCEPT !.stale = TRUE]
                   ELSE runs[t]]

\* A run starts in slot s and goes on to its first suspension or to its end;
\* `fetches` are the outcomes its fetch can have.
StartRunFrom(s, r0, fetches) ==
  /\ ~Busy
  /\ run[s].pc = "idle"
  /\ \E current \in fetches :
       IF current.exc
       THEN /\ run' = [overlap(run, s) EXCEPT ![s] =
                         [begin(s, r0) EXCEPT !.pc = "raised", !.exc = "fetch",
                                              !.fetch = "exception"]]
            /\ UNCHANGED previous_dict_json
       ELSE \E o \in LoopOrders(current, previous_dict_json) :
              LET r1 == check_for_updates(begin(s, r0), current, o[1], o[2],
                                          previous_dict_json)
                  out == broadcast(r1, chat_ids_json, previous_dict_json)
              IN /\ run' = step(overlap(run, s), s, out.r)
                 /\ previous_dict_json' = out.prev
  /\ UNCHANGED <<chat_ids_json, toggled, started, tracked>>

\* A run, of the first MaxRuns of a behaviour, whose fetch can end in any way.
StartRun(s, r0) ==
  /\ nruns < MaxRuns
  /\ nruns' = nruns + 1
  /\ StartRunFrom(s, r0, Fetches)

\* check_for_updates(application), as the scheduler calls it.
JobFrame ==
  [Idle EXCEPT !.op = "check_for_updates", !.app = TRUE,
               !.save_list = TRUE, !.forced_update = FALSE]

\* check_for_updates(context.application, forced_update=True)
ManualFrame ==
  [Idle EXCEPT !.op = "check_for_updates", !.app = TRUE,
               !.save_list = TRUE, !.forced_update = TRUE]

\* The scheduler fires the job: check_for_updates(application).
ScheduledRun == StartRun("job", JobFrame)

\* /manual_update: check_for_updates(context.application, forced_update=True).
cmd_manual_update == StartRun("cmd", ManualFrame)

\* A send_message that a run awaits ends: it returns and the loop goes on,
\* or it raises and the exception leaves broadcast and check_for_updates.
SendReturnsWith(s, outcomes) ==
  /\ ~Busy
  /\ run[s].pc = "await_send"
  /\ \E outcome \in outcomes :
       LET r == run[s]
       IN IF outcome = "raise"
          THEN /\ run' = [run EXCEPT ![s] = [r EXCEPT !.pc = "raised", !.exc = "send"]]
               /\ UNCHANGED previous_dict_json
          ELSE LET out == advance(r, r.i + 1, chat_ids_json, previous_dict_json)
               IN /\ run' = step(run, s, out.r)
                  /\ previous_dict_json' = out.prev
  /\ UNCHANGED <<chat_ids_json, nruns, toggled, started, tracked>>

SendReturns(s) == SendReturnsWith(s, SendOutcomes)

\* The coroutine is gone: the event loop takes up other work.
Finish(s) ==
  /\ Terminal(run[s])
  /\ run' = [run EXCEPT ![s] = Idle]
  /\ UNCHANGED <<chat_ids_json, previous_dict_json, nruns, toggled, started, tracked>>

\* ------------------------------------------------------------- the commands

\* A registry write while the job's broadcast is suspended: the job's dict
\* was loaded before it.
note_write(runs, file) ==
  IF runs["job"].pc = "await_send" /\ file # chat_ids_json
  THEN [runs EXCEPT !["job"].dirty = TRUE]
  ELSE runs

\* A handler ends with its reply: the send returns, or raises.
replied(r, reply, outcome) ==
  IF outcome = "raise"
  THEN [r EXCEPT !.pc = "raised", !.exc = "send", !.reply = reply]
  ELSE [r EXCEPT !.pc = "returned", !.reply = reply]

\* /start
cmd_start(chat_id) ==
  /\ ~Busy
  /\ run["cmd"].pc = "idle"
  /\ \E outcome \in SendOutcomes :
       LET res == save_chat_id(chat_ids_json, chat_id)
           msg == IF res.ret THEN <<Plain("You're subscribed to updates.")>>
                  ELSE <<Plain("Already subscribed.")>>
           r == [Idle EXCEPT !.op = "start", !.chat = chat_id,
                             !.ret = IF res.ret THEN "True" ELSE "False"]
       IN /\ chat_ids_json' = res.file
          /\ run' = [note_write(run, res.file) EXCEPT !["cmd"] =
                       IF res.exc # ""
                       THEN [r EXCEPT !.pc = "raised", !.exc = res.exc, !.ret = ""]
                       ELSE replied(r, msg, outcome)]
          /\ started' = IF res.exc = "" THEN started \cup {chat_id} ELSE started
  /\ UNCHANGED <<previous_dict_json, nruns, toggled, tracked>>

\* /notify_no_updates
cmd_set_notify_no_updates(chat_id) ==
  /\ ~Busy
  /\ run["cmd"].pc = "idle"
  /\ \E outcome \in SendOutcomes :
       LET res == set_notify_no_updates(chat_ids_json, chat_id)
           msg == IF res.new_val
                  THEN <<Plain("Enabled - get status updates even if no changes are detected")>>
                  ELSE <<Plain("Disabled - no status updates if no changes are detected")>>
           r == [Idle EXCEPT !.op = "notify_no_updates", !.chat = chat_id,
                             !.ret = res.result]
       IN /\ chat_ids_json' = res.file
          /\ run' = [note_write(run, res.file) EXCEPT !["cmd"] =
                       CASE res.result = "noop" -> [r EXCEPT !.pc = "returned"]
                         [] res.result \in {"KeyError", "JSONDecodeError"} ->
                              [r EXCEPT !.pc = "raised", !.exc = res.result]
                         [] OTHER -> replied(r, msg, outcome)]
          /\ toggled' = IF res.result = "saved"
                        THEN [toggled EXCEPT ![chat_id] = ~@]
                        ELSE toggled
  /\ UNCHANGED <<previous_dict_json, nruns, started, tracked>>

\* "for velox, lat_long_t in fetch_current_dict().items()": how a handler
\* that lists the fetch result ends before its reply, "" when it goes on.
items_exc(current) ==
  IF current.exc THEN "fetch"
  ELSE IF current.none THEN "AttributeError"
  ELSE ""

\* The reply of /current_list, the dict iterated in the given order.
current_list_msg(current_dict, order) ==
  <<Plain("Current List"), Plain("")>>
  \o [i \in DOMAIN order |-> Entry(order[i], current_dict[order[i]])]

\* The url of /show_map, the dict iterated in the given order.
RECURSIVE show_map_url(_, _, _)
show_map_url(current_dict, order, i) ==
  IF i > Len(order) THEN "//@47.0473835,8.2532969,12.25z"
  ELSE PyStr(current_dict[order[i]].v[1]) \o "," \o PyStr(current_dict[order[i]].v[2])
         \o "/" \o show_map_url(current_dict, order, i + 1)

show_map_msg(current_dict, order) ==
  <<Plain("Velox map"),
    Plain("https://www.google.com/maps/dir/" \o show_map_url(current_dict, order, 1))>>

\* /current_list and /show_map: fetch, format, reply.  The handler reads and
\* writes nothing the other coroutines share, so it is taken up from the
\* states where none is in flight.
Listing(op, chat_id) ==
  /\ Quiet
  /\ \E current \in Fetches, outcome \in SendOutcomes :
       LET r == [Idle EXCEPT !.op = op, !.chat = chat_id]
           exc == items_exc(current)
       IN IF exc # ""
          THEN run' = [run EXCEPT !["cmd"] =
                         [r EXCEPT !.pc = "raised", !.exc = exc,
                                   !.fetch = IF current.exc THEN "exception"
                                             ELSE current.why]]
          ELSE LET d == current.d
               IN \E order \in Orders(DOMAIN d) :
                    run' = [run EXCEPT !["cmd"] =
                              replied([r EXCEPT !.fetch = "dict", !.current_dict = d],
                                      IF op = "current_list"
                                      THEN current_list_msg(d, order)
                                      ELSE show_map_msg(d, order),
                                      outcome)]
  /\ UNCHANGED <<chat_ids_json, previous_dict_json, nruns, toggled, started, tracked>>

cmd_current_list(chat_id) == Listing("current_list", chat_id)

cmd_show_map(chat_id) == Listing("show_map", chat_id)

\* ------------------------------------------------------------ the processes

\* The script without -t: one check_for_updates(save_list=args.save_list)
\* with no app, then, under -p, the print loop over a second fetch.  The
\* script is run while the bot has no coroutine in flight.
CliRun(save_list, print_list) ==
  /\ Quiet
  /\ nruns < MaxRuns
  /\ nruns' = nruns + 1
  /\ \E current \in Fetches, second \in Fetches :
       LET r0 == begin("cli", [Idle EXCEPT !.op = "cli", !.save_list = save_list])
       IN IF current.exc
          THEN /\ run' = [run EXCEPT !["cli"] =
                            [r0 EXCEPT !.pc = "raised", !.exc = "fetch",
                                       !.fetch = "exception"]]
               /\ UNCHANGED previous_dict_json
          ELSE \E o \in LoopOrders(current, previous_dict_json) :
                 LET r1 == check_for_updates(r0, current, o[1], o[2], previous_dict_json)
                     out == broadcast(r1, chat_ids_json, previous_dict_json)
                 IN /\ run' = [run EXCEPT !["cli"] =
                                 IF print_list /\ out.r.pc = "returned"
                                      /\ items_exc(second) # ""
                                 THEN [out.r EXCEPT !.pc = "raised",
                                                    !.exc = items_exc(second)]
                                 ELSE out.r]
                    /\ previous_dict_json' = out.prev
  /\ UNCHANGED <<chat_ids_json, toggled, started, tracked>>

\* The bot process dies and is started again: the coroutines in flight are
\* lost, the files stay.
Crash ==
  /\ ~Busy
  /\ \E s \in {"job", "cmd"} : run[s].pc # "idle"
  /\ run' = [s \in Slots |-> IF s = "cli" THEN run[s] ELSE Idle]
  /\ UNCHANGED <<chat_ids_json, previous_dict_json, nruns, toggled, started, tracked>>

Next ==
  \/ ScheduledRun
  \/ cmd_manual_update
  \/ \E s \in Slots : SendReturns(s)
  \/ \E s \in Slots : Finish(s)
  \/ \E chat_id \in ChatIds : cmd_start(chat_id)
  \/ \E chat_id \in ChatIds : cmd_set_notify_no_updates(chat_id)
  \/ \E chat_id \in ChatIds : cmd_current_list(chat_id)
  \/ \E chat_id \in ChatIds : cmd_show_map(chat_id)
  \/ \E save_list \in BOOLEAN, print_list \in BOOLEAN : CliRun(save_list, print_list)
  \/ Crash

Spec == Init /\ [][Next]_vars

\* The same program and the same steps, with the history of overlapping runs
\* recorded in the frames.
InitOverlap ==
  /\ chat_ids_json \in {MissingFile, JsonFile(<<>>)}
  /\ previous_dict_json = MissingFile
  /\ run = [s \in Slots |-> Idle]
  /\ nruns = 0
  /\ toggled = [c \in ChatIds |-> FALSE]
  /\ started = {}
  /\ tracked = TRUE

SpecOverlap == InitOverlap /\ [][Next]_vars

\* The program started over damaged state files: chat_ids.json malformed, or
\* previous_dict.json malformed or in the plain-name-list format.
InitDamaged ==
  /\ chat_ids_json \in {MissingFile, JsonFile(<<>>), CorruptFile}
  /\ previous_dict_json \in {MissingFile, CorruptFile, PlainListFile}
  /\ chat_ids_json = CorruptFile \/ previous_dict_json # MissingFile
  /\ run = [s \in Slots |-> Idle]
  /\ nruns = 0
  /\ toggled = [c \in ChatIds |-> FALSE]
  /\ started = {}
  /\ tracked = FALSE

SpecDamaged == InitDamaged /\ [][Next]_vars

\* The bot left to its scheduler while the page has changed and stays as it
\* is: the page lists "Rue A", which previous_dict.json does not hold.  Every
\* fetch fails in one of its ways or returns that list; the scheduler goes on
\* firing, and a send_message that is awaited returns.
SourceNames == {"Rue A"}

LiveFetches == {f \in Fetches : f.exc \/ f.none \/ DOMAIN f.d = SourceNames}

InitLive ==
  /\ chat_ids_json \in
       {JsonFile(<<[id |-> "1", notify_for_no_updates |-> FALSE]>>),
        JsonFile(<<[id |-> "2", notify_for_no_updates |-> FALSE],
                   [id |-> "1", notify_for_no_updates |-> FALSE]>>)}
  /\ previous_dict_json \in
       {MissingFile,
        JsonFile(json_dump(DictSet(EmptyDict, "Rue B",
                                   PyTuple(LatLong("Rue B")[1], LatLong("Rue B")[2]))))}
  /\ run = [s \in Slots |-> Idle]
  /\ nruns = 0
  /\ toggled = [c \in ChatIds |-> FALSE]
  /\ started = {c \in ChatIds : HasKey(chat_ids_json.data, ToString(c))}
  /\ tracked = FALSE

\* The runs are counted up to MaxRuns and go on after it.
CountRun == nruns' = IF nruns < MaxRuns THEN nruns + 1 ELSE nruns

\* The scheduler fires and the fetch returns the page's list.
ScheduledRunFetched ==
  /\ StartRunFrom("job", JobFrame, {f \in LiveFetches : ~f.exc /\ ~f.none})
  /\ CountRun

\* The scheduler fires and the fetch fails.
ScheduledRunFailed ==
  /\ StartRunFrom("job", JobFrame, {f \in LiveFetches : f.exc \/ f.none})
  /\ CountRun

\* /manual_update, the fetch ending in either way.
ManualRunLive ==
  /\ StartRunFrom("cmd", ManualFrame, LiveFetches)
  /\ CountRun

\* The send_message that a run awaits returns.
SendSucceeds(s) == SendReturnsWith(s, {"ok"})

NextLive ==
  \/ ScheduledRunFetched
  \/ ScheduledRunFailed
  \/ ManualRunLive
  \/ \E s \in BotSlots : SendSucceeds(s)
  \/ \E s \in BotSlots : Finish(s)
  \/ \E chat_id \in ChatIds : cmd_start(chat_id)
  \/ \E chat_id \in ChatIds : cmd_set_notify_no_updates(chat_id)

\* The cron trigger fires every hour and some fetch succeeds: a scheduled run
\* with a successful fetch cannot be possible again and again and never
\* happen.  An awaited send returns, and a coroutine that has ended is
\* released.
SpecLive ==
  /\ InitLive
  /\ [][NextLive]_vars
  /\ SF_vars(ScheduledRunFetched)
  /\ \A s \in BotSlots : SF_vars(SendSucceeds(s)) /\ WF_vars(Finish(s))

\* ------------------------------------------------ velox-bot-async.py
\* The earlier variant of the bot.  It keeps the names only, in
\* previous_list.txt (held here in previous_dict_json), has no forced mode,
\* no /show_map and no headless mode; /start and /notify_no_updates are the
\* same code as in velox.py.

\* The for-loop over li_tags: the text of every <a>, in page order.
RECURSIVE list_loop(_, _)
list_loop(li_tags, i) ==
  IF i > Len(li_tags) THEN <<>>
  ELSE (IF li_tags[i].a THEN <<li_tags[i].text>> ELSE <<>>) \o list_loop(li_tags, i + 1)

\* fetch_current_list: as fetch_current_dict, with a list of names.
fetch_current_list(response) ==
  IF response.exc
  THEN [exc |-> TRUE, none |-> FALSE, why |-> "", l |-> <<>>]
  ELSE IF response.status_code # HTTP_OK
  THEN [exc |-> FALSE, none |-> TRUE, why |-> "status_code", l |-> <<>>]
  ELSE IF ~response.radarList
  THEN [exc |-> FALSE, none |-> TRUE, why |-> "radarList", l |-> <<>>]
  ELSE [exc |-> FALSE, none |-> FALSE, why |-> "",
        l |-> list_loop(ButLast(response.li_tags), 1)]

ListFetches == {fetch_current_list(response) : response \in Responses}

\* set(a_list)
SetOf(a_list) == {a_list[i] : i \in DOMAIN a_list}

\* The load of previous_list.txt: a missing file gives [].
load_previous_list(file) == IF file.status = "missing" THEN <<>> ELSE file.data

\* "Added:\n- " + "\n- ".join(added) + "\n": the header and one "- name"
\* line per name.
joined(header, order) ==
  IF Len(order) = 0 THEN <<>>
  ELSE <<Plain(header)>> \o [i \in DOMAIN order |-> Plain("- " \o order[i])]

build_msg_async(added_order, removed_order) ==
  <<Plain("Checking for updates:")>>
  \o joined("Added:", added_order)
  \o joined("Removed:", removed_order)
  \o (IF Len(added_order) = 0 /\ Len(removed_order) = 0
      THEN <<Plain("No changes detected.")>>
      ELSE <<>>)

\* broadcast's test on one chat: "pass" skips nobody.
skips_async(no_updates, file, chat_id) == FALSE

\* The end of check_for_updates once broadcast has returned: the early return
\* of a failed fetch, or the save, which no test guards.
after_broadcast_async(r, prev) ==
  IF r.fetch # "list"
  THEN [r |-> [r EXCEPT !.pc = "returned"], prev |-> prev]
  ELSE [r |-> [r EXCEPT !.pc = "returned", !.saved = TRUE],
        prev |-> JsonFile(r.current_list)]

\* broadcast from index i on: every chat is sent to.
advance_async(r, i, reg, prev) ==
  IF i <= Len(r.keys) /\ ~skips_async(r.no_updates, reg, r.keys[i])
  THEN [r |-> [r EXCEPT !.pc = "await_send", !.i = i, !.sent = @ \cup {r.keys[i]}],
        prev |-> prev]
  ELSE after_broadcast_async([r EXCEPT !.i = i], prev)

broadcast_async(r, reg, prev) ==
  LET chat_ids == get_chats(reg)
  IN IF Falsy(chat_ids)
     THEN after_broadcast_async(r, prev)
     ELSE advance_async([r EXCEPT !.keys = KeysOf(chat_ids.d)], 1, reg, prev)

\* check_for_updates from the fetch's return to the broadcast.
check_for_updates_async(r, current, added_order, removed_order, prev) ==
  LET previous_list == load_previous_list(prev)
      set_current == SetOf(current.l)
      set_previous == SetOf(previous_list)
      added == added_of(set_current, set_previous)
      removed == removed_of(set_previous, set_current)
  IN IF current.none
     THEN [r EXCEPT !.fetch = current.why, !.msg = FailedMsg, !.no_updates = FALSE]
     ELSE [r EXCEPT !.fetch = "list", !.current_list = current.l,
                    !.previous_list = previous_list,
                    !.added = added, !.removed = removed,
                    !.msg = build_msg_async(added_order, removed_order),
                    !.no_updates = (added = {} /\ removed = {})]

LoopOrdersAsync(current, prev) ==
  LET set_previous == SetOf(load_previous_list(prev))
  IN Orders(added_of(SetOf(current.l), set_previous))
       \X Orders(removed_of(set_previous, SetOf(current.l)))

\* check_for_updates(app), from the scheduler or from /manual_update.
StartRunAsync(s) ==
  /\ ~Busy
  /\ run[s].pc = "idle"
  /\ nruns < MaxRuns
  /\ nruns' = nruns + 1
  /\ \E current \in ListFetches :
       LET r0 == begin(s, [Idle EXCEPT !.op = "check_for_updates", !.app = TRUE])
       IN IF current.exc
          THEN /\ run' = [overlap(run, s) EXCEPT ![s] =
                            [r0 EXCEPT !.pc = "raised", !.exc = "fetch",
                                       !.fetch = "exception"]]
               /\ UNCHANGED previous_dict_json
          ELSE \E o \in LoopOrdersAsync(current, previous_dict_json) :
                 LET r1 == check_for_updates_async(r0, current, o[1], o[2],
                                                   previous_dict_json)
                     out == broadcast_async(r1, chat_ids_json, previous_dict_json)
                 IN /\ run' = step(overlap(run, s), s, out.r)
                    /\ previous_dict_json' = out.prev
  /\ UNCHANGED <<chat_ids_json, toggled, started, tracked>>

ScheduledRunAsync == StartRunAsync("job")

cmd_manual_update_async == StartRunAsync("cmd")

SendReturnsAsync(s) ==
  /\ ~Busy
  /\ run[s].pc = "await_send"
  /\ \E outcome \in SendOutcomes :
       LET r == run[s]
       IN IF outcome = "raise"
          THEN /\ run' = [run EXCEPT ![s] = [r EXCEPT !.pc = "raised", !.exc = "send"]]
               /\ UNCHANGED previous_dict_json
          ELSE LET out == advance_async(r, r.i + 1, chat_ids_json, previous_dict_json)
               IN /\ run' = step(run, s, out.r)
                  /\ previous_dict_json' = out.prev
  /\ UNCHANGED <<chat_ids_json, nruns, toggled, started, tracked>>

\* /current_list: "\n".join(current_list) raises TypeError on None.
cmd_current_list_async(chat_id) ==
  /\ Quiet
  /\ \E current \in ListFetches, outcome \in SendOutcomes :
       LET r == [Idle EXCEPT !.op = "current_list", !.chat = chat_id]
       IN run' = [run EXCEPT !["cmd"] =
                    IF current.exc
                    THEN [r EXCEPT !.pc = "raised", !.exc = "fetch", !.fetch = "exception"]
                    ELSE IF current.none
                    THEN [r EXCEPT !.pc = "raised", !.exc = "TypeError",
                                   !.fetch = current.why]
                    ELSE replied([r EXCEPT !.fetch = "list", !.current_list = current.l],
                                 <<Plain("Current List:")>>
                                   \o [i \in DOMAIN current.l |-> Plain(current.l[i])],
                                 outcome)]
  /\ UNCHANGED <<chat_ids_json, previous_dict_json, nruns, toggled, started, tracked>>

NextAsync ==
  \/ ScheduledRunAsync
  \/ cmd_manual_update_async
  \/ \E s \in BotSlots : SendReturnsAsync(s)
  \/ \E s \in BotSlots : Finish(s)
  \/ \E chat_id \in ChatIds : cmd_start(chat_id)
  \/ \E chat_id \in ChatIds : cmd_set_notify_no_updates(chat_id)
  \/ \E chat_id \in ChatIds : cmd_current_list_async(chat_id)
  \/ Crash

SpecAsync == Init /\ [][NextAsync]_vars

\* ------------------------------------------------------------------ claims

IsRun(r) == r.op = "check_for_updates"

\* The registry as a reload reads it now.
Registry == chat_ids_json.data

\* A run whose fetch returned its result and which found nothing added or
\* removed: the fetched names are the names of the snapshot it loaded.
NoChange(r) == r.fetch \in {"dict", "list"} /\ r.added = {} /\ r.removed = {}

\* C1: when the fetch succeeds and the fetched names are the snapshot's names,
\* a run that has ended has sent its "no changes" message to every subscriber
\* whose preference is true and, when scheduled, to no subscriber whose
\* preference is false; a run of /manual_update has sent it to every
\* subscriber.  (Stated of runs during which the registry was not written.)
C1_NoChangeDelivery ==
  \A s \in BotSlots :
    LET r == run[s]
    IN (Terminal(r) /\ IsRun(r) /\ NoChange(r) /\ ~r.dirty) =>
         \A i \in DOMAIN Registry :
           LET sub == Registry[i]
           IN IF s = "cmd" \/ sub.notify_for_no_updates
              THEN sub.id \in r.sent
              ELSE sub.id \notin r.sent

\* C2: when the fetch fails (non-200 status or no container), a run that has
\* ended has sent "Failed to fetch updates." to every registered subscriber,
\* whatever the preference, and has not written the snapshot.
C2_FetchFailureNotice ==
  \A s \in BotSlots :
    LET r == run[s]
    IN (Terminal(r) /\ IsRun(r) /\ r.fetch \in {"status_code", "radarList"} /\ ~r.dirty) =>
         /\ r.msg = FailedMsg
         /\ ~r.saved
         /\ \A i \in DOMAIN Registry : Registry[i].id \in r.sent

\* The coordinates of two snapshots differ on a name both hold.
CoordinatesDiffer(current_dict, previous_dict) ==
  \E n \in (DOMAIN current_dict) \cap (DOMAIN previous_dict) :
    current_dict[n].v # previous_dict[n].v

\* C3: in every run, added is exactly the names of the fetched snapshot that
\* the loaded snapshot lacks and removed exactly the names of the loaded
\* snapshot that the fetched one lacks, whatever the coordinates; the two are
\* disjoint, and both are empty when the two snapshots hold the same names.
C3_DiffByName ==
  \A s \in Slots :
    LET r == run[s]
    IN (r.op \in {"check_for_updates", "cli"} /\ r.fetch = "dict") =>
         /\ \A n \in Names :
              /\ n \in r.added <=> (n \in DOMAIN r.current_dict /\ n \notin DOMAIN r.previous_dict)
              /\ n \in r.removed <=> (n \in DOMAIN r.previous_dict /\ n \notin DOMAIN r.current_dict)
         /\ r.added \cap r.removed = {}
         /\ (DOMAIN r.current_dict = DOMAIN r.previous_dict) => (r.added = {} /\ r.removed = {})

\* C3's case: a run has compared two snapshots of the same names whose
\* coordinates differ, and a run has found a name added and a name removed.
C3_Witness ==
  \E s \in Slots :
    LET r == run[s]
    IN /\ r.op = "check_for_updates" /\ r.fetch = "dict"
       /\ DOMAIN r.current_dict = DOMAIN r.previous_dict
       /\ CoordinatesDiffer(r.current_dict, r.previous_dict)
       /\ r.added = {} /\ r.removed = {}

\* previous_dict.json holds the names and the coordinates of current_dict.
SnapshotEquals(file, current_dict) ==
  /\ file.status = "ok"
  /\ DOMAIN file.data = DOMAIN current_dict
  /\ \A n \in DOMAIN current_dict : file.data[n].v = current_dict[n].v

\* C4: when a bot run whose fetch succeeded and whose diff is not empty has
\* returned (its broadcast completed), previous_dict.json holds the names and
\* the coordinates that the run fetched.
C4_SnapshotIsFetch ==
  \A s \in BotSlots :
    LET r == run[s]
    IN (r.pc = "returned" /\ IsRun(r) /\ r.fetch = "dict"
          /\ (r.added # {} \/ r.removed # {})) =>
         SnapshotEquals(previous_dict_json, r.current_dict)

\* C4's case: a scheduled run that found "Rue B" added to a stored "Rue A"
\* has returned after a broadcast that reached a subscriber.
C4_Witness ==
  LET r == run["job"]
  IN /\ r.pc = "returned" /\ IsRun(r) /\ r.fetch = "dict"
     /\ r.added = {"Rue B"} /\ r.removed = {}
     /\ DOMAIN r.previous_dict = {"Rue A"}
     /\ r.sent # {}
     /\ SnapshotEquals(previous_dict_json, r.current_dict)

\* The positions of a plain line in a message.
LinesOf(msg, text) == {i \in DOMAIN msg : msg[i] = Plain(text)}

\* The entries (linked lines) of the section that the header at position h opens:
\* the linked lines after h up to the next plain line.
SectionOf(msg, h) ==
  {i \in DOMAIN msg :
     /\ i > h
     /\ msg[i].href # ""
     /\ \A j \in (h + 1)..i : msg[j].href # ""}

\* The section under `header` lists exactly `names`, one entry each; there is
\* no such header when `names` is empty.
SectionLists(msg, header, names) ==
  IF names = {}
  THEN LinesOf(msg, header) = {}
  ELSE /\ Cardinality(LinesOf(msg, header)) = 1
       /\ LET sec == SectionOf(msg, CHOOSE h \in LinesOf(msg, header) : TRUE)
          IN /\ \A i \in sec : msg[i].text \in names
             /\ \A n \in names : Cardinality({i \in sec : msg[i].text = n}) = 1

\* C5: the message of a run holds an "Added:" section iff added is not empty,
\* with one entry per added name, a "Removed:" section iff removed is not
\* empty, with one entry per removed name, and the one line "No changes
\* detected." iff both are empty; it holds no other entry.
C5_MessageSections ==
  \A s \in Slots :
    LET r == run[s]
    IN (r.op \in {"check_for_updates", "cli"} /\ r.fetch = "dict") =>
         /\ SectionLists(r.msg, "Added:", r.added)
         /\ SectionLists(r.msg, "Removed:", r.removed)
         /\ Cardinality(LinesOf(r.msg, "No changes detected.")) =
              (IF r.added = {} /\ r.removed = {} THEN 1 ELSE 0)
         /\ Cardinality({i \in DOMAIN r.msg : r.msg[i].href # ""}) =
              Cardinality(r.added) + Cardinality(r.removed)

\* C5's case: a run has built a message with both sections.
C5_Witness ==
  \E s \in BotSlots :
    LET r == run[s]
    IN /\ IsRun(r) /\ r.fetch = "dict"
       /\ r.added = {"Rue A"} /\ r.removed = {"Rue B"}
       /\ Len(r.msg) = 6
       /\ r.sent # {}

\* The preference the registry holds for a chat.
PreferenceOf(chats, chat_id) ==
  chats[IndexOf(chats, ToString(chat_id))].notify_for_no_updates

Subscribed(chats, chat_id) == HasKey(chats, ToString(chat_id))

\* No id is held twice.
OneEntryPerId(chats) ==
  \A i, j \in DOMAIN chats : chats[i].id = chats[j].id => i = j

\* The step in which /start of chat_id is handled.
StartStep(chat_id) ==
  /\ run["cmd"].pc = "idle"
  /\ run'["cmd"].op = "start"
  /\ run'["cmd"].chat = chat_id

\* C6: /start of an id the registry does not hold returns "newly subscribed"
\* and adds one entry, with the preference false, leaving the others as they
\* were; /start of an id it holds returns "already subscribed" and leaves
\* chat_ids.json as it was, that id's preference included; the registry never
\* holds an id twice.
C6_SubscribeIdempotent ==
  /\ [](OneEntryPerId(Registry))
  /\ [][\A c \in ChatIds :
          StartStep(c) =>
            IF Subscribed(Registry, c)
            THEN /\ run'["cmd"].ret = "False"
                 /\ run'["cmd"].reply = <<Plain("Already subscribed.")>>
                 /\ chat_ids_json' = chat_ids_json
            ELSE /\ run'["cmd"].ret = "True"
                 /\ run'["cmd"].reply = <<Plain("You're subscribed to updates.")>>
                 /\ chat_ids_json'.status = "ok"
                 /\ Len(chat_ids_json'.data) = Len(Registry) + 1
                 /\ \A i \in DOMAIN Registry : chat_ids_json'.data[i] = Registry[i]
                 /\ Subscribed(chat_ids_json'.data, c)
                 /\ ~PreferenceOf(chat_ids_json'.data, c)]_vars

\* C6's case: a chat that had turned its preference on has subscribed again,
\* was told "already subscribed", and its preference is still on.
C6_Witness ==
  LET r == run["cmd"]
  IN /\ r.op = "start" /\ Terminal(r) /\ r.ret = "False"
     /\ Subscribed(Registry, r.chat)
     /\ PreferenceOf(Registry, r.chat)
     /\ Len(Registry) = 2

C8_ToggleUnknownIsError ==
  LET r == run["cmd"]
  IN (r.op = "notify_no_updates" /\ Terminal(r) /\ ~Subscribed(Registry, r.chat)) =>
       r.pc = "raised"

\* C9: in a broadcast that has ended, every chat of the loop that was not to
\* be skipped has had its send_message called, whichever other sends failed.
\* (Stated of runs during which the registry was not written.)
C9_SendFailureIsolated ==
  \A s \in BotSlots :
    LET r == run[s]
    IN (Terminal(r) /\ IsRun(r) /\ ~r.dirty) =>
         \A i \in DOMAIN r.keys :
           ~skips(r.no_updates, chat_ids_json, r.keys[i]) => r.keys[i] \in r.sent

\* C10: no fetch raises to its caller: a run whose fetch failed (status,
\* transport error, no container) has built "Failed to fetch updates." for
\* its broadcast and has not ended by the fetch's exception.
C10_FetchNeverRaises ==
  \A s \in BotSlots :
    LET r == run[s]
    IN (IsRun(r) /\ r.fetch \in {"exception", "status_code", "radarList"}) =>
         /\ r.exc # "fetch"
         /\ r.msg = FailedMsg

\* C11: /current_list and /show_map never end without a reply: whatever the
\* fetch gave, the handler has called send_message with a message for the
\* requester when it ends, and after a fetch that gave a dict the message of
\* /current_list holds one entry per place.
C11_ListingAlwaysReplies ==
  LET r == run["cmd"]
  IN (r.op \in {"current_list", "show_map"} /\ Terminal(r)) =>
       /\ r.reply # <<>>
       /\ (r.op = "current_list" /\ r.fetch = "dict") =>
            Len(r.reply) = 2 + Cardinality(DOMAIN r.current_dict)

\* The coordinates an entry of a run's message was built from: those fetched
\* for an added name, those of the loaded snapshot for a removed one.
CoordinatesOf(r, name) ==
  IF name \in DOMAIN r.current_dict THEN r.current_dict[name] ELSE r.previous_dict[name]

\* A coordinate pair with a member that extraction did not find.
Absent(lat_long_t) == lat_long_t.v[1] = PyNone \/ lat_long_t.v[2] = PyNone

\* The link of every entry is the lookup of its coordinates when they are
\* present and is not a lookup of its coordinates when they are absent.
LinksWithFallback(r, lines) ==
  \A i \in DOMAIN lines :
    lines[i].href # "" =>
      LET c == CoordinatesOf(r, lines[i].text)
      IN IF Absent(c)
         THEN lines[i].href # generate_maps_base_url(c)
         ELSE lines[i].href = generate_maps_base_url(c)

\* C16: in every notification and every /current_list reply, an entry whose
\* coordinates are present links to the lookup built from them, and an entry
\* whose coordinates are absent does not link to a lookup built from them.
C16_LinkFallback ==
  \A s \in Slots :
    LET r == run[s]
    IN (r.fetch = "dict" /\ r.op \in {"check_for_updates", "cli", "current_list"}) =>
         /\ LinksWithFallback(r, r.msg)
         /\ LinksWithFallback(r, r.reply)

\* A run in slot s that may write the snapshot: its fetch gave a result, it
\* found a name added or removed or is the run of /manual_update, and saving
\* is on (always in the bot, under --save-list in the headless script).
MayWrite(s, r) ==
  /\ r.op \in {"check_for_updates", "cli"}
  /\ r.fetch \in {"dict", "list"}
  /\ r.added # {} \/ r.removed # {} \/ s = "cmd"
  /\ s \in BotSlots \/ r.save_list

\* C12: the snapshot file changes only in the step of a run that may write it:
\* a scheduled run that found no change, a run whose fetch failed and a
\* headless run without --save-list leave it as it was.
C12_SavePolicy ==
  [][previous_dict_json' # previous_dict_json =>
       \E s \in Slots : run'[s].saved /\ MayWrite(s, run'[s])]_vars

\* The exceptions that a damaged state file raises.
StateFileErrors == {"JSONDecodeError", "AttributeError: keys"}

\* C13: no operation ends by the exception of a missing or damaged state
\* file, and a run that has loaded a missing or damaged snapshot file goes on
\* as a first run: every fetched name is added and none is removed.
C13_DamagedStateIsEmpty ==
  \A s \in Slots :
    LET r == run[s]
    IN /\ r.exc \notin StateFileErrors
       /\ (r.op \in {"check_for_updates", "cli"} /\ r.fetch = "dict"
             /\ previous_dict_json.status # "ok") =>
            (r.added = DOMAIN r.current_dict /\ r.removed = {})

\* The step in which /notify_no_updates of chat_id is handled.
ToggleStep(chat_id) ==
  /\ run["cmd"].pc = "idle"
  /\ run'["cmd"].op = "notify_no_updates"
  /\ run'["cmd"].chat = chat_id

\* C14: no step removes an id from chat_ids.json, and the preference of a
\* subscriber changes only in the step that handles that subscriber's own
\* /notify_no_updates: runs, sends, /start and the toggles of other chats
\* leave it as it was.
C14_RegistryMonotonic ==
  [][\A c \in ChatIds :
       Subscribed(Registry, c) =>
         /\ Subscribed(chat_ids_json'.data, c)
         /\ PreferenceOf(chat_ids_json'.data, c) # PreferenceOf(Registry, c) =>
              ToggleStep(c)]_vars

\* C14's case: of two subscribers the first has turned its preference on, the
\* second has not, and a scheduled run has since broadcast and returned.
C14_Witness ==
  /\ Len(Registry) = 2
  /\ Subscribed(Registry, 1) /\ PreferenceOf(Registry, 1)
  /\ Subscribed(Registry, 2) /\ ~PreferenceOf(Registry, 2)
  /\ run["job"].pc = "returned" /\ IsRun(run["job"])
  /\ run["job"].sent # {}

\* C15: the scheduled run and the run of /manual_update are never in flight
\* together with the same change in hand: no subscriber is sent, by both, a
\* message that lists the same name as added or the same name as removed
\* relative to one persisted snapshot.
C15_NoDuplicateBroadcast ==
  LET a == run["job"]
      b == run["cmd"]
  IN (IsRun(a) /\ IsRun(b) /\ a.fetch = "dict" /\ b.fetch = "dict") =>
       \A chat \in a.sent \cap b.sent :
         /\ a.added \cap b.added = {}
         /\ a.removed \cap b.removed = {}

\* C17: a run writes previous_dict.json only when no run that started, and so
\* fetched, after it has written the file already: the snapshot that stays
\* after two overlapping runs is that of the later fetch.
C17_NoStaleOverwrite ==
  [][\A s \in Slots :
       (run'[s].saved /\ ~run[s].saved) => ~run[s].stale]_vars

\* C18: whatever the interleaving of /start, /notify_no_updates and runs
\* suspended in their broadcast, chat_ids.json holds every chat whose /start
\* has been handled, each with the preference false flipped once per toggle
\* it has completed; and the file is written by the steps of /start and
\* /notify_no_updates only, never by a step of a run.
C18_NoLostUpdate ==
  /\ [](\A c \in ChatIds :
          /\ c \in started => Subscribed(Registry, c)
          /\ Subscribed(Registry, c) => PreferenceOf(Registry, c) = toggled[c])
  /\ [][chat_ids_json' # chat_ids_json =>
          \E c \in ChatIds : StartStep(c) \/ ToggleStep(c)]_vars

\* C18's case: while the scheduled run was suspended in its broadcast a chat
\* subscribed and a chat toggled; the run has returned, and the file holds
\* both chats and the toggled preference.
C18_Witness ==
  /\ run["job"].pc = "returned" /\ IsRun(run["job"]) /\ run["job"].dirty
  /\ started = {1, 2}
  /\ toggled[1] /\ ~toggled[2]
  /\ Len(Registry) = 2
  /\ PreferenceOf(Registry, 1) /\ ~PreferenceOf(Registry, 2)

\* What the next run would find if it fetched the names that r fetched.
NextRunOf(r) ==
  check_for_updates([Idle EXCEPT !.op = "check_for_updates", !.app = TRUE],
                    [exc |-> FALSE, none |-> FALSE, why |-> "", d |-> r.current_dict],
                    <<>>, <<>>, previous_dict_json)

\* C20: when a run of the bot whose fetch succeeded has returned (all its
\* sends succeeded) without having overlapped another run, the names that
\* previous_dict.json holds are the names it fetched, so that a next run that
\* fetches the same names finds nothing added, nothing removed, and reports
\* "No changes detected.".
C20_ChangeAnnouncedOnce ==
  \A s \in BotSlots :
    LET r == run[s]
    IN (r.pc = "returned" /\ IsRun(r) /\ r.fetch = "dict" /\ ~r.overlapped) =>
         /\ load_previous(previous_dict_json).set_previous = DOMAIN r.current_dict
         /\ NextRunOf(r).added = {} /\ NextRunOf(r).removed = {}
         /\ LinesOf(NextRunOf(r).msg, "No changes detected.") # {}

\* C20's case: the first run found "Rue A" and saved it; the second run,
\* after it, has fetched "Rue A" again, found no change and returned.
C20_Witness ==
  LET r == run["job"]
  IN /\ r.pc = "returned" /\ IsRun(r) /\ r.fetch = "dict" /\ ~r.overlapped
     /\ nruns = 2 /\ ~r.saved /\ SnapshotEquals(previous_dict_json, r.current_dict)
     /\ DOMAIN r.current_dict = {"Rue A"}
     /\ r.added = {} /\ r.removed = {}
     /\ Len(Registry) > 0

\* The names previous_dict.json holds, as the next run will load them.
SnapshotNames == load_previous(previous_dict_json).set_previous

\* A run has fetched the page's list and has called send_message for the
\* chat with a message that lists exactly the difference between the page and
\* the snapshot of names P.
Announced(chat_id, P) ==
  \E s \in BotSlots :
    LET r == run[s]
    IN /\ IsRun(r) /\ r.fetch = "dict"
       /\ ToString(chat_id) \in r.sent
       /\ r.added = SourceNames \ P
       /\ r.removed = P \ SourceNames
       /\ SectionLists(r.msg, "Added:", r.added)
       /\ SectionLists(r.msg, "Removed:", r.removed)

\* C19: while the page lists names that previous_dict.json does not hold (or
\* lacks names it holds), however many runs fail to fetch, every chat that is
\* subscribed when no run is in flight is in the end sent a message that
\* lists exactly that difference.
C19_ChangeNotLost ==
  \A c \in ChatIds, P \in SUBSET Names :
    (Quiet /\ Subscribed(Registry, c) /\ SnapshotNames = P /\ P # SourceNames)
      ~> Announced(c, P)

\* C19's case: the first run did not write the snapshot (its fetch failed);
\* the second run, scheduled, has announced "Rue A" to both subscribers,
\* whose preferences are off, and has returned.
C19_Witness ==
  LET r == run["job"]
  IN /\ r.pc = "returned" /\ r.saved /\ nruns = 2
     /\ run["cmd"].pc = "idle"
     /\ Announced(1, {}) /\ Announced(2, {})
     /\ ~PreferenceOf(Registry, 1) /\ ~PreferenceOf(Registry, 2)

====
